---- MODULE Spec2Model ----
(***************************************************************************)
(* The rate-limiting subsystem of azizndao/glib: the Store contract, its   *)
(* two backends (MemoryStore, RedisStore) and the RateLimit middleware.    *)
(*                                                                         *)
(* Time is a discrete clock of ticks, TicksPerSecond ticks to the second.  *)
(* Goroutines are the processes Procs; each is either calling one Store    *)
(* operation directly or running one request through the middleware,       *)
(* which calls the Store operations in turn.  The MemoryStore operations   *)
(* are split at every point where the Go code can be preempted with an    *)
(* effect another goroutine can see: the read of the clock, the section    *)
(* under the map lock m.mu, the acquisition of the entry lock entry.mu     *)
(* and the section under it.  A RedisStore operation is the client side    *)
(* (the read of the clock) followed by one atomic script evaluation.       *)
(***************************************************************************)
EXTENDS Integers, Sequences, FiniteSets, TLC

\* ------------------------------------------------------------------ bounds

NumProcs == 2
MaxOps == 4
MaxReqs == 3
MaxFaultReqs == 2
MaxTime == 4
TicksPerSecond == 2
Window == 2
MaxLimit == 2

\* The platform's int is IntBits wide: math.MaxInt and math.MinInt.
IntBits == 8
MaxInt == 2 ^ (IntBits - 1) - 1
MinInt == -(2 ^ (IntBits - 1))

Margin == 2
MaxAgeTicks == 2
MaxCloses == 2
MaxStores == 3
MaxSweepOps == 3
MaxLiveOps == 2

Procs == 1..NumProcs
Keys == {"ip1"}
NoEntry == 0
NoHash == [type |-> "none", count |-> -1, window_start |-> -1, expire |-> -1,
           numeric |-> FALSE, str |-> << >>]
NoErr == "nil"
Backends == {"memory", "redis"}

VARIABLES
    clock,      \* time.Now(), in ticks
    cfg,        \* the middleware's Config, as RateLimit has completed it
    backend,    \* which Store the Config holds: "memory" or "redis"
    entries,    \* MemoryStore.entries: key -> pointer to a memoryEntry, or NoEntry
    ecount,     \* memoryEntry.count, by pointer
    ews,        \* memoryEntry.windowStart, by pointer
    emu,        \* memoryEntry.mu, by pointer: the goroutine holding it, or 0
    rdb,        \* the Redis server: key -> the value it holds (a hash, a string, none)
    pc,         \* each goroutine's position inside the Store operation it runs
    local,      \* each goroutine's locals: now, entry, and the entry fields it read
    ret,        \* what the last Store operation of the goroutine returned
    mw,         \* each goroutine's position inside the middleware handler
    req,        \* the request a goroutine serves: what it observed and produced
    ops,        \* operations (or requests) started so far
    nInc,       \* Increment calls that have returned so far
    disturbed,  \* a Decrement, a Reset or a window reset has happened
    mmu,        \* MemoryStore.mu: the goroutine holding it, or 0
    sweep,      \* the cleanup goroutine: its position and the `now` it read
    done,       \* MemoryStore.done: TRUE once the channel is closed
    ticker,     \* MemoryStore.cleanup: "running" or "stopped"
    closes,     \* calls of MemoryStore.Close so far
    panicked,   \* a goroutine has panicked (close of a closed channel)
    srv         \* the Server: its Stores, and where Shutdown stands

vars == <<clock, cfg, backend, entries, ecount, ews, emu, rdb, pc, local, ret,
          mw, req, ops, nInc, disturbed, mmu, sweep, done, ticker, closes,
          panicked, srv>>

storeLife == <<mmu, sweep, done, ticker, closes, panicked>>
lifeVars == <<mmu, sweep, done, ticker, closes, panicked, srv>>

memVars == <<entries, ecount, ews, emu>>
mwVars == <<mw, req>>

\* ------------------------------------------------------------- helpers

Result(c, t, e) == [count |-> c, ttl |-> t, err |-> e]

NoLocal == [now |-> 0, entry |-> NoEntry, count |-> 0, windowStart |-> 0]

NoReq == [seen |-> -1, getErr |-> NoErr, incErr |-> NoErr, incCount |-> -1,
          nextCalls |-> 0, handlerCalls |-> 0, decCalls |-> 0, status |-> -1,
          remaining |-> -1, reset |-> -1, retryAfter |-> -1,
          outcome |-> "none", result |-> "none",
          count0 |-> -1, expired0 |-> FALSE, overlapped |-> FALSE]

\* ---------------------------------------------------------------- Init

\* The goroutine id of cleanupRoutine, next to those serving requests.
Sweeper == NumProcs + 1

\* A Server as New returns it, nothing registered, serving.
NewServer ==
    [pc |-> "serving", Stores |-> << >>, i |-> 1,
     closeCalls |-> [b \in Backends |-> 0], closeErrs |-> 0,
     lastClosed |-> 0, result |-> "none"]

\* NewMemoryStore: the done channel open, the ticker started, the cleanup
\* goroutine waiting in its select.
InitLife ==
    /\ mmu = 0
    /\ sweep = [pc |-> "select", now |-> 0]
    /\ done = FALSE
    /\ ticker = "running"
    /\ closes = 0
    /\ panicked = FALSE
    /\ srv = NewServer

\* NewMemoryStore (an empty map), an empty Redis, no goroutine running.
InitStore ==
    /\ InitLife
    /\ clock = 0
    /\ entries = [k \in Keys |-> NoEntry]
    /\ ecount = << >>
    /\ ews = << >>
    /\ emu = << >>
    /\ rdb = [k \in Keys |-> NoHash]
    /\ pc = [p \in Procs |-> "idle"]
    /\ local = [p \in Procs |-> NoLocal]
    /\ ret = [p \in Procs |-> Result(0, 0, NoErr)]
    /\ mw = [p \in Procs |-> "none"]
    /\ req = [p \in Procs |-> NoReq]
    /\ ops = 0
    /\ nInc = 0
    /\ disturbed = FALSE

\* A Config with every field set: Max, Window, the skip flags, and the
\* fields RateLimit or its caller must supply.
BaseConfig ==
    [max |-> MaxLimit, window |-> Window,
     skipFailed |-> FALSE, skipSuccessful |-> FALSE,
     keyGenerator |-> "func", handler |-> "func", store |-> "caller",
     headerPrefix |-> "X-RateLimit-"]

Configs ==
    {[BaseConfig EXCEPT !.max = m, !.skipFailed = f, !.skipSuccessful = s] :
        m \in 1..MaxLimit, f \in BOOLEAN, s \in BOOLEAN}

\* The Configs a caller may pass: any of the optional fields left unset.
CallerConfigs ==
    {[c EXCEPT !.keyGenerator = k, !.handler = h, !.store = st, !.headerPrefix = hp] :
        c \in Configs, k \in {"nil", "func"}, h \in {"nil", "func"},
        st \in {"nil", "caller"}, hp \in {"", "X-RateLimit-"}}

\* RateLimit(config): the defaults it fills in before it builds the handler.
RateLimit(config) ==
    LET c1 == IF config.store = "nil"
              THEN [config EXCEPT !.store = "NewMemoryStore"] ELSE config
    IN  IF c1.headerPrefix = "" THEN [c1 EXCEPT !.headerPrefix = "X-RateLimit-"]
        ELSE c1

Init ==
    /\ InitStore
    /\ backend \in Backends
    /\ cfg = BaseConfig

\* ------------------------------------------------------------- the clock

Tick ==
    /\ clock < MaxTime
    /\ clock' = clock + 1
    /\ UNCHANGED <<lifeVars, cfg, backend, memVars, rdb, pc, local, ret, mwVars, ops,
                   nInc, disturbed>>

\* ------------------------------------------- a goroutine calls the Store

OpEntry == [Increment |-> "inc_start", Decrement |-> "dec_map",
            Get |-> "get_map", Reset |-> "reset"]

Call(p, op) ==
    /\ pc[p] = "idle"
    /\ mw[p] = "none"
    /\ ops < MaxOps
    /\ ops' = ops + 1
    /\ pc' = [pc EXCEPT ![p] = OpEntry[op]]
    /\ disturbed' = (disturbed \/ op \in {"Decrement", "Reset"})
    /\ UNCHANGED <<lifeVars, clock, cfg, backend, memVars, rdb, local, ret, mwVars, nInc>>

\* Return from a Store operation with (count, ttl, err): its locals are gone.
Return(p, c, t, e) ==
    /\ pc' = [pc EXCEPT ![p] = "idle"]
    /\ ret' = [ret EXCEPT ![p] = Result(c, t, e)]
    /\ local' = [local EXCEPT ![p] = NoLocal]

\* Go on to the next position of the operation, with its locals as given.
Goto(p, label, loc) ==
    /\ pc' = [pc EXCEPT ![p] = label]
    /\ local' = [local EXCEPT ![p] = loc]
    /\ ret' = ret

TheKey == CHOOSE k \in Keys : TRUE

\* time.Now() as the Store reads it: MemoryStore keeps time.Time values,
\* RedisStore the whole seconds of time.Now().Unix().
Unix(t) == t \div TicksPerSecond

\* Increment, first statement of either store: now := time.Now() (memory),
\* now := time.Now().Unix() (redis).
IncStart(p) ==
    /\ pc[p] = "inc_start"
    /\ IF backend = "memory"
       THEN Goto(p, "inc_map", [local[p] EXCEPT !.now = clock])
       ELSE Goto(p, "inc_eval", [local[p] EXCEPT !.now = Unix(clock)])
    /\ UNCHANGED <<lifeVars, clock, cfg, backend, memVars, rdb, mwVars, ops, nInc, disturbed>>

\* ------------------------------------------------------------ MemoryStore

\* m.mu can be taken: no goroutine holds it. The operations take and release
\* it within one step; the cleanup goroutine holds it across its scan.
MapFree == mmu = 0

\* Mutant: the creation path forgets to count the request that creates the entry.
NewEntryCountZero == 1 - 1

\* The count of the entry the creation path stores.
NewEntryCount == 1

\* Increment: the section under m.mu.
IncMap(p) ==
    /\ backend = "memory"
    /\ pc[p] = "inc_map"
    /\ MapFree
    /\ IF entries[TheKey] = NoEntry
       THEN /\ ecount' = Append(ecount, NewEntryCount)
            /\ ews' = Append(ews, local[p].now)
            /\ emu' = Append(emu, 0)
            /\ entries' = [entries EXCEPT ![TheKey] = Len(ecount) + 1]
            /\ Return(p, 1, cfg.window, NoErr)
            /\ nInc' = nInc + 1
       ELSE /\ Goto(p, "inc_lock", [local[p] EXCEPT !.entry = entries[TheKey]])
            /\ UNCHANGED <<memVars, nInc>>
    /\ UNCHANGED <<lifeVars, clock, cfg, backend, rdb, mwVars, ops, disturbed>>

\* Mutant: the entry is read and written without taking entry.mu.
MutexIgnored(e) == TRUE

\* entry.mu.Lock() can return: the mutex is free.
MutexFree(e) == emu[e] = 0

\* What a goroutine reads of its entry once it holds entry.mu.
ReadEntry(p) ==
    [local[p] EXCEPT !.count = ecount[local[p].entry],
                     !.windowStart = ews[local[p].entry]]

\* Increment: entry.mu.Lock(), then the reads of the entry.
IncLock(p) ==
    /\ backend = "memory"
    /\ pc[p] = "inc_lock"
    /\ MutexFree(local[p].entry)
    /\ emu' = [emu EXCEPT ![local[p].entry] = p]
    /\ Goto(p, "inc_body", ReadEntry(p))
    /\ UNCHANGED <<lifeVars, clock, cfg, backend, entries, ecount, ews, rdb, mwVars,
                   ops, nInc, disturbed>>

\* Mutant: the window is taken to have expired one tick early (>= for >).
WindowExpiredEarly(elapsed, window) == elapsed >= window

\* Increment: `elapsed > window`, the window has expired.
WindowExpired(elapsed, window) == elapsed > window

\* Increment: the writes under entry.mu, the deferred Unlock and the return.
IncBody(p) ==
    /\ backend = "memory"
    /\ pc[p] = "inc_body"
    /\ LET e == local[p].entry
           elapsed == local[p].now - local[p].windowStart
       IN  IF WindowExpired(elapsed, cfg.window)
           THEN /\ ecount' = [ecount EXCEPT ![e] = 1]
                /\ ews' = [ews EXCEPT ![e] = local[p].now]
                /\ Return(p, 1, cfg.window, NoErr)
                /\ disturbed' = TRUE
           ELSE /\ ecount' = [ecount EXCEPT ![e] = local[p].count + 1]
                /\ ews' = ews
                /\ Return(p, local[p].count + 1, cfg.window - elapsed, NoErr)
                /\ disturbed' = disturbed
    /\ emu' = [emu EXCEPT ![local[p].entry] = 0]
    /\ nInc' = nInc + 1
    /\ UNCHANGED <<lifeVars, clock, cfg, backend, entries, rdb, mwVars, ops>>

\* Decrement: the lookup under m.mu.RLock().
DecMap(p) ==
    /\ backend = "memory"
    /\ pc[p] = "dec_map"
    /\ MapFree
    /\ IF entries[TheKey] = NoEntry
       THEN Return(p, 0, 0, NoErr)
       ELSE Goto(p, "dec_lock", [local[p] EXCEPT !.entry = entries[TheKey]])
    /\ UNCHANGED <<lifeVars, clock, cfg, backend, memVars, rdb, mwVars, ops, nInc, disturbed>>

\* Decrement: entry.mu.Lock(), then the read of entry.count.
DecLock(p) ==
    /\ backend = "memory"
    /\ pc[p] = "dec_lock"
    /\ MutexFree(local[p].entry)
    /\ emu' = [emu EXCEPT ![local[p].entry] = p]
    /\ Goto(p, "dec_body", ReadEntry(p))
    /\ UNCHANGED <<lifeVars, clock, cfg, backend, entries, ecount, ews, rdb, mwVars,
                   ops, nInc, disturbed>>

\* Mutant: the decrement without its `> 0` guard.
DecrementedUnfloored(c) == c - 1

\* Decrement: the count after `if entry.count > 0 { entry.count-- }`.
Decremented(c) == IF c > 0 THEN c - 1 ELSE c

\* Decrement: the write, the deferred Unlock and the return.
DecBody(p) ==
    /\ backend = "memory"
    /\ pc[p] = "dec_body"
    /\ ecount' = [ecount EXCEPT ![local[p].entry] = Decremented(local[p].count)]
    /\ emu' = [emu EXCEPT ![local[p].entry] = 0]
    /\ Return(p, 0, 0, NoErr)
    /\ UNCHANGED <<lifeVars, clock, cfg, backend, entries, ews, rdb, mwVars, ops, nInc,
                   disturbed>>

\* Mutant: a Get that creates the entry it does not find (get-or-create).
GetMapCreating(p) ==
    /\ backend = "memory"
    /\ pc[p] = "get_map"
    /\ MapFree
    /\ IF entries[TheKey] = NoEntry
       THEN /\ ecount' = Append(ecount, 0)
            /\ ews' = Append(ews, clock)
            /\ emu' = Append(emu, 0)
            /\ entries' = [entries EXCEPT ![TheKey] = Len(ecount) + 1]
            /\ Return(p, 0, 0, NoErr)
       ELSE /\ Goto(p, "get_lock", [local[p] EXCEPT !.entry = entries[TheKey]])
            /\ UNCHANGED memVars
    /\ UNCHANGED <<lifeVars, clock, cfg, backend, rdb, mwVars, ops, nInc, disturbed>>

\* Get: the lookup under m.mu.RLock().
GetMap(p) ==
    /\ backend = "memory"
    /\ pc[p] = "get_map"
    /\ MapFree
    /\ IF entries[TheKey] = NoEntry
       THEN Return(p, 0, 0, NoErr)
       ELSE Goto(p, "get_lock", [local[p] EXCEPT !.entry = entries[TheKey]])
    /\ UNCHANGED <<lifeVars, clock, cfg, backend, memVars, rdb, mwVars, ops, nInc, disturbed>>

\* Mutant: a Get that charges the key it reads.
GetBodyCharging(p) ==
    /\ backend = "memory"
    /\ pc[p] = "get_lock"
    /\ MutexFree(local[p].entry)
    /\ ecount' = [ecount EXCEPT ![local[p].entry] = @ + 1]
    /\ Return(p, ecount[local[p].entry], 0, NoErr)
    /\ UNCHANGED <<lifeVars, clock, cfg, backend, entries, ews, emu, rdb, mwVars,
                   ops, nInc, disturbed>>

\* Get: entry.mu.Lock(), the read, the deferred Unlock, and the return of
\* (entry.count, 0, nil).
GetBody(p) ==
    /\ backend = "memory"
    /\ pc[p] = "get_lock"
    /\ MutexFree(local[p].entry)
    /\ Return(p, ecount[local[p].entry], 0, NoErr)
    /\ UNCHANGED <<lifeVars, clock, cfg, backend, memVars, rdb, mwVars, ops, nInc, disturbed>>

\* Mutant: a Reset that zeroes the entry's count and keeps the entry, with
\* its running window, in the map.
ResetOpZeroing(p) ==
    /\ backend = "memory"
    /\ pc[p] = "reset"
    /\ MapFree
    /\ ecount' = IF entries[TheKey] = NoEntry THEN ecount
                 ELSE [ecount EXCEPT ![entries[TheKey]] = 0]
    /\ Return(p, 0, 0, NoErr)
    /\ UNCHANGED <<lifeVars, clock, cfg, backend, entries, ews, emu, rdb, mwVars, ops,
                   nInc, disturbed>>

\* Reset: delete(m.entries, key) under m.mu.
ResetOp(p) ==
    /\ backend = "memory"
    /\ pc[p] = "reset"
    /\ MapFree
    /\ entries' = [entries EXCEPT ![TheKey] = NoEntry]
    /\ Return(p, 0, 0, NoErr)
    /\ UNCHANGED <<lifeVars, clock, cfg, backend, ecount, ews, emu, rdb, mwVars, ops,
                   nInc, disturbed>>

\* The steps of the operations the middleware calls, and all of them.
MemoryAdmit(p) ==
    \/ IncMap(p)
    \/ IncLock(p)
    \/ IncBody(p)
    \/ GetMap(p)
    \/ GetBody(p)

MemoryRollback(p) ==
    \/ DecMap(p)
    \/ DecLock(p)
    \/ DecBody(p)

MemoryCounting(p) ==
    \/ MemoryAdmit(p)
    \/ MemoryRollback(p)

MemoryStep(p) ==
    \/ MemoryCounting(p)
    \/ ResetOp(p)

\* ------------------------------------------- MemoryStore: cleanup and Close

\* DefaultMaxAge, on the model's clock.
DefaultMaxAge == MaxAgeTicks

\* `now.Sub(entry.windowStart) > DefaultMaxAge`: the entry is evicted.
Stale(age) == age > DefaultMaxAge

\* cleanupRoutine, `case <-m.cleanup.C`: a tick is received, now := time.Now().
SweepTick ==
    /\ backend = "memory"
    /\ ~panicked
    /\ sweep.pc = "select"
    /\ ticker = "running"
    /\ sweep' = [pc |-> "lock", now |-> clock]
    /\ UNCHANGED <<clock, cfg, backend, memVars, rdb, pc, local, ret, mwVars,
                   ops, nInc, disturbed, mmu, done, ticker, closes, panicked, srv>>

\* cleanupRoutine: m.mu.Lock().
SweepLock ==
    /\ ~panicked
    /\ sweep.pc = "lock"
    /\ MapFree
    /\ mmu' = Sweeper
    /\ sweep' = [sweep EXCEPT !.pc = "scan"]
    /\ UNCHANGED <<clock, cfg, backend, memVars, rdb, pc, local, ret, mwVars,
                   ops, nInc, disturbed, done, ticker, closes, panicked, srv>>

\* cleanupRoutine, the body of the range loop for the one key of the map:
\* entry.mu.Lock(), the delete if the entry is stale, entry.mu.Unlock().
\* Over an empty map the loop ends at once.
SweepEntry ==
    /\ ~panicked
    /\ sweep.pc = "scan"
    /\ LET e == entries[TheKey]
       IN  IF e = NoEntry
           THEN UNCHANGED <<entries, disturbed>>
           ELSE /\ MutexFree(e)
                /\ IF Stale(sweep.now - ews[e])
                   THEN /\ entries' = [entries EXCEPT ![TheKey] = NoEntry]
                        /\ disturbed' = TRUE
                   ELSE UNCHANGED <<entries, disturbed>>
    /\ sweep' = [sweep EXCEPT !.pc = "unlock"]
    /\ UNCHANGED <<clock, cfg, backend, ecount, ews, emu, rdb, pc, local, ret,
                   mwVars, ops, nInc, mmu, done, ticker, closes, panicked, srv>>

\* Mutant: the scan returns to the select with m.mu still held.
SweepUnlockMissing ==
    /\ ~panicked
    /\ sweep.pc = "unlock"
    /\ sweep' = [sweep EXCEPT !.pc = "select"]
    /\ UNCHANGED <<clock, cfg, backend, memVars, rdb, pc, local, ret, mwVars,
                   ops, nInc, disturbed, mmu, done, ticker, closes, panicked, srv>>

\* cleanupRoutine: m.mu.Unlock(), and back to the select.
SweepUnlock ==
    /\ ~panicked
    /\ sweep.pc = "unlock"
    /\ mmu' = 0
    /\ sweep' = [sweep EXCEPT !.pc = "select"]
    /\ UNCHANGED <<clock, cfg, backend, memVars, rdb, pc, local, ret, mwVars,
                   ops, nInc, disturbed, done, ticker, closes, panicked, srv>>

\* Mutant: the select has no done case, the goroutine never returns.
SweepExitMissing ==
    /\ FALSE
    /\ UNCHANGED vars

\* cleanupRoutine, `case <-m.done`: m.cleanup.Stop() and return.
SweepExit ==
    /\ ~panicked
    /\ sweep.pc = "select"
    /\ done
    /\ ticker' = "stopped"
    /\ sweep' = [sweep EXCEPT !.pc = "exited"]
    /\ UNCHANGED <<clock, cfg, backend, memVars, rdb, pc, local, ret, mwVars,
                   ops, nInc, disturbed, mmu, done, closes, panicked, srv>>

\* The steps of the scan, and all the steps of the cleanup goroutine.
SweepScan ==
    \/ SweepLock
    \/ SweepEntry
    \/ SweepUnlock

CleanupStep ==
    \/ SweepTick
    \/ SweepScan
    \/ SweepExit

\* close(m.done): closing a closed channel panics.
CloseDone ==
    /\ closes' = closes + 1
    /\ IF done
       THEN panicked' = TRUE /\ UNCHANGED done
       ELSE done' = TRUE /\ UNCHANGED panicked

\* MemoryStore.Close, called by the program.
Close ==
    /\ backend = "memory"
    /\ ~panicked
    /\ closes < MaxCloses
    /\ CloseDone
    /\ UNCHANGED <<clock, cfg, backend, memVars, rdb, pc, local, ret, mwVars,
                   ops, nInc, disturbed, mmu, sweep, ticker, srv>>

\* ------------------------------------------------------------- RedisStore

\* Text is a sequence of one-character strings; Digits[d + 1] is digit d.
Digits == <<"0", "1", "2", "3", "4", "5", "6", "7", "8", "9">>
IsDigit(c) == \E i \in DOMAIN Digits : Digits[i] = c
DigitVal(c) == (CHOOSE i \in DOMAIN Digits : Digits[i] = c) - 1

\* The int64 of a Redis integer reply is wider than the platform's int.
Int64Bits == 2 * IntBits
MaxInt64 == 2 ^ (Int64Bits - 1) - 1
MinInt64 == -(2 ^ (Int64Bits - 1))

\* The decimal text of a number, as a reply that carries it as a string.
RECURSIVE FormatNat(_)
FormatNat(n) ==
    IF n < 10 THEN <<Digits[n + 1]>>
    ELSE Append(FormatNat(n \div 10), Digits[(n % 10) + 1])

FormatInt(n) == IF n < 0 THEN <<"-">> \o FormatNat(-n) ELSE FormatNat(n)

\* The number a run of digits spells.
RECURSIVE DigitsValue(_)
DigitsValue(s) ==
    IF s = << >> THEN 0
    ELSE 10 * DigitsValue(SubSeq(s, 1, Len(s) - 1)) + DigitVal(s[Len(s)])

\* strconv.ParseInt(s, 10, 64): an optional sign, then digits only.
ParseInt(s) ==
    LET signed == s # << >> /\ s[1] \in {"+", "-"}
        body == IF signed THEN Tail(s) ELSE s
        n == DigitsValue(body)
        v == IF signed /\ s[1] = "-" THEN -n ELSE n
    IN  IF body = << >> \/ \E i \in DOMAIN body : ~IsDigit(body[i])
        THEN [v |-> 0, err |-> "invalid syntax"]
        ELSE IF v > MaxInt64 \/ v < MinInt64
        THEN [v |-> 0, err |-> "value out of range"]
        ELSE [v |-> v, err |-> NoErr]

\* strconv.Atoi(s): the parse, narrowed to int.
Atoi(s) ==
    LET r == ParseInt(s)
    IN  IF r.err = NoErr /\ (r.v > MaxInt \/ r.v < MinInt)
        THEN [v |-> 0, err |-> "value out of range"]
        ELSE r

\* The dynamic type and value of an element of the Eval reply.
Int64Val(n) == [kind |-> "int64", n |-> n, s |-> << >>]
StringVal(s) == [kind |-> "string", n |-> 0, s |-> s]
ReplyKinds == {"int64", "string"}
Reply(kind, n) == IF kind = "int64" THEN Int64Val(n) ELSE StringVal(FormatInt(n))

\* Mutant: toInt narrowing an int64 with int(v), unchecked: the value wraps.
toIntTruncating(val) ==
    LET n == IF val.kind = "string" THEN ParseInt(val.s).v ELSE val.n
    IN  IF val.kind = "string" /\ ParseInt(val.s).err # NoErr
        THEN [v |-> 0, err |-> ParseInt(val.s).err]
        ELSE [v |-> ((n - MinInt) % (2 ^ IntBits)) + MinInt, err |-> NoErr]

\* toInt: int as it is, int64 and decimal text range-checked against int.
toInt(val) ==
    IF val.kind = "int" THEN [v |-> val.n, err |-> NoErr]
    ELSE IF val.kind = "int64"
    THEN IF val.n > MaxInt \/ val.n < MinInt
         THEN [v |-> 0, err |-> "overflows int"]
         ELSE [v |-> val.n, err |-> NoErr]
    ELSE IF val.kind = "string"
    THEN LET r == ParseInt(val.s)
         IN  IF r.err # NoErr THEN [v |-> 0, err |-> r.err]
             ELSE IF r.v > MaxInt \/ r.v < MinInt
             THEN [v |-> 0, err |-> "overflows int"]
             ELSE [v |-> r.v, err |-> NoErr]
    ELSE [v |-> 0, err |-> "cannot convert"]

\* A key without a timeout.
NoExpiry == 0 - 1

\* The value Redis holds for the key: none once its expiry has passed.
Live(k) ==
    IF rdb[k] # NoHash /\ (rdb[k].expire = NoExpiry \/ clock < rdb[k].expire)
    THEN rdb[k] ELSE NoHash

\* EXPIRE key seconds: a timeout that is not positive deletes the key.
Expire(h, seconds) ==
    IF seconds <= 0 THEN NoHash
    ELSE [h EXCEPT !.expire = clock + seconds * TicksPerSecond]

\* The hash HMSET leaves: numeric count and window_start fields.
Hash(count, ws) ==
    [type |-> "hash", count |-> count, window_start |-> ws, expire |-> NoExpiry,
     numeric |-> TRUE, str |-> << >>]

\* A string key holding the text s.
StringKey(s) ==
    [type |-> "string", count |-> 0, window_start |-> 0, expire |-> NoExpiry,
     numeric |-> FALSE, str |-> s]

\* `tonumber(data[1]) or 0` on the hash's count field.
FieldCount(h) == IF h.type = "hash" /\ h.numeric THEN h.count ELSE 0

\* Mutant: the script returns the new count without writing it to the hash.
incrementScriptUnsaved(h, window, now) ==
    LET ws0 == IF h.type = "hash" THEN h.window_start ELSE now
        expired == now - ws0 > window
        count == IF expired THEN 1 ELSE FieldCount(h) + 1
        ws == IF expired THEN now ELSE ws0
    IN  [hash |-> Expire(Hash(FieldCount(h), ws), window * 2),
         count |-> count,
         ttl |-> window - (now - ws),
         expired |-> expired,
         err |-> IF h.type = "string" THEN "WRONGTYPE" ELSE NoErr]

\* incrementScript, run atomically by the server on the value h of the key
\* with ARGV = (window, now): the value it leaves and the reply {count, ttl}.
\* HMGET on a key that holds a string fails the script with WRONGTYPE.
incrementScript(h, window, now) ==
    LET ws0 == IF h.type = "hash" THEN h.window_start ELSE now
        expired == now - ws0 > window
        count == IF expired THEN 1 ELSE FieldCount(h) + 1
        ws == IF expired THEN now ELSE ws0
    IN  IF h.type = "string"
        THEN [hash |-> h, count |-> 0, ttl |-> 0, expired |-> FALSE,
              err |-> "WRONGTYPE"]
        ELSE [hash |-> Expire(Hash(count, ws), window * 2),
              count |-> count,
              ttl |-> window - (now - ws),
              expired |-> expired,
              err |-> NoErr]

\* decrementScript: the value it leaves (HSET only when the count is > 0).
decrementScript(h) ==
    IF h.type = "string" THEN [hash |-> h, err |-> "WRONGTYPE"]
    ELSE IF FieldCount(h) > 0
    THEN [hash |-> [h EXCEPT !.count = FieldCount(h) - 1], err |-> NoErr]
    ELSE [hash |-> h, err |-> NoErr]

\* RedisStore.Increment after the read of the clock: windowSeconds, the
\* Eval of incrementScript, the parse of the reply with toInt.
REvalInc(p) ==
    /\ backend = "redis"
    /\ pc[p] = "inc_eval"
    /\ \E kind \in ReplyKinds :
       LET windowSeconds == cfg.window \div TicksPerSecond
           r == incrementScript(Live(TheKey), windowSeconds, local[p].now)
           count == toInt(Reply(kind, r.count))
           ttlSeconds == toInt(Reply(kind, r.ttl))
       IN  /\ rdb' = [rdb EXCEPT ![TheKey] = r.hash]
           /\ IF r.err # NoErr
              THEN Return(p, 0, 0, "redis increment failed")
              ELSE IF count.err # NoErr
              THEN Return(p, 0, 0, "failed to parse count")
              ELSE IF ttlSeconds.err # NoErr
              THEN Return(p, 0, 0, "failed to parse ttl")
              ELSE Return(p, count.v, ttlSeconds.v * TicksPerSecond, NoErr)
           /\ disturbed' = (disturbed \/ r.expired \/ (rdb[TheKey] # NoHash /\ Live(TheKey) = NoHash))
    /\ nInc' = nInc + 1
    /\ UNCHANGED <<lifeVars, clock, cfg, backend, memVars, mwVars, ops>>

\* RedisStore.Decrement: the Eval of decrementScript.
RDec(p) ==
    /\ backend = "redis"
    /\ pc[p] = "dec_map"
    /\ LET r == decrementScript(Live(TheKey))
       IN  /\ rdb' = [rdb EXCEPT ![TheKey] = r.hash]
           /\ IF r.err # NoErr
              THEN Return(p, 0, 0, "redis decrement failed")
              ELSE Return(p, 0, 0, NoErr)
    /\ UNCHANGED <<lifeVars, clock, cfg, backend, memVars, mwVars, ops, nInc, disturbed>>

\* RedisClientAdapter.Get: GET on the key.  A missing key is redis.Nil,
\* which the adapter turns into ("", nil); a key that holds a hash makes
\* the server answer WRONGTYPE, which the adapter passes on as an error.
AdapterGet(k) ==
    IF Live(k) = NoHash THEN [val |-> << >>, err |-> NoErr]
    ELSE IF Live(k).type = "hash" THEN [val |-> << >>, err |-> "WRONGTYPE"]
    ELSE [val |-> Live(k).str, err |-> NoErr]

\* RedisStore.Get.
RGet(p) ==
    /\ backend = "redis"
    /\ pc[p] = "get_map"
    /\ LET g == AdapterGet(TheKey)
           a == Atoi(g.val)
       IN  IF g.err # NoErr THEN Return(p, 0, 0, NoErr)
           ELSE IF a.err # NoErr THEN Return(p, 0, 0, "failed to parse count")
           ELSE Return(p, a.v, 0, NoErr)
    /\ UNCHANGED <<lifeVars, clock, cfg, backend, memVars, rdb, mwVars, ops, nInc, disturbed>>

\* RedisStore.Reset: DEL key.
RReset(p) ==
    /\ backend = "redis"
    /\ pc[p] = "reset"
    /\ rdb' = [rdb EXCEPT ![TheKey] = NoHash]
    /\ Return(p, 0, 0, NoErr)
    /\ UNCHANGED <<lifeVars, clock, cfg, backend, memVars, mwVars, ops, nInc, disturbed>>

RedisCounting(p) ==
    \/ REvalInc(p)
    \/ RDec(p)
    \/ RGet(p)

RedisStep(p) ==
    \/ RedisCounting(p)
    \/ RReset(p)

\* ------------------------------------------------- the RateLimit middleware

\* The status codes the downstream handler may write; 0: it wrote none.
Statuses == {0, 101, 399, 400}

\* Errors a Store may return.
StoreErrors == {"key not found", "storage error"}

InFlight(q) == mw[q] \in {"get", "inc", "dec"}

\* The stored count of the key, as a Get at this instant would read it.
StoredCount(k) ==
    IF backend = "memory"
    THEN IF entries[k] = NoEntry THEN 0 ELSE ecount[entries[k]]
    ELSE IF Live(k) = NoHash THEN 0 ELSE Live(k).count

\* The key's window has run out: more than Window since its start.
StoredExpired(k) ==
    /\ backend = "memory"
    /\ entries[k] # NoEntry
    /\ clock - ews[entries[k]] > cfg.window

\* Calling a nil function value panics: the request ends there.
Panicked(r) == [r EXCEPT !.outcome = "panic", !.result = "panic"]

\* A request reaches the handler: key := cfg.KeyGenerator(c), then the call
\* of cfg.Store.Get.
MwStart(p, budget) ==
    /\ pc[p] = "idle"
    /\ mw[p] \in {"none", "done"}
    /\ ops < budget
    /\ ops' = ops + 1
    /\ IF cfg.keyGenerator = "nil"
       THEN /\ mw' = [mw EXCEPT ![p] = "done"]
            /\ req' = [req EXCEPT ![p] = Panicked(NoReq)]
            /\ UNCHANGED <<pc, local, ret>>
       ELSE /\ mw' = [mw EXCEPT ![p] = "get"]
            /\ req' = [q \in Procs |->
                 IF q = p
                 THEN [NoReq EXCEPT !.count0 = StoredCount(TheKey),
                                    !.expired0 = StoredExpired(TheKey),
                                    !.overlapped = \E o \in Procs \ {p} : InFlight(o)]
                 ELSE IF InFlight(q) THEN [req[q] EXCEPT !.overlapped = TRUE]
                 ELSE req[q]]
            /\ Goto(p, "get_map", local[p])
    /\ UNCHANGED <<lifeVars, clock, cfg, backend, memVars, rdb, nInc, disturbed>>

\* The Store call the goroutine is about to run fails: it returns (0, 0, err)
\* and leaves the store as it is.
StoreFault(p, e) ==
    /\ \/ mw[p] = "get" /\ pc[p] = "get_map"
       \/ mw[p] = "inc" /\ pc[p] = "inc_start"
       \/ mw[p] = "dec" /\ pc[p] = "dec_map"
    /\ Return(p, 0, 0, e)
    /\ UNCHANGED <<lifeVars, clock, cfg, backend, memVars, rdb, mwVars, ops, nInc, disturbed>>

\* `err != nil && err.Error() != "key not found"` after Get.
GetFailed(err) == err # NoErr /\ err # "key not found"

\* Mutant: the limit check with > for >=.
LimitExceeded(count, max) == count > max

\* `count >= cfg.Max`: the limit is already reached.
LimitReached(count, max) == count >= max

\* Mutant: a store error denies the request (fail-closed).
FailClosed(r) ==
    [r EXCEPT !.handlerCalls = @ + 1, !.outcome = "denied", !.result = "429"]

\* `return next(c)` without the limiter's headers: the fail-open path.
FailOpen(r) ==
    [r EXCEPT !.nextCalls = @ + 1, !.outcome = "failopen", !.result = "next"]

\* The goroutine has read what its last Store call returned.
Consumed(p) == ret' = [ret EXCEPT ![p] = Result(0, 0, NoErr)]

\* After Get: fail open, deny, or go on to charge the request.
MwAfterGet(p) ==
    /\ mw[p] = "get"
    /\ pc[p] = "idle"
    /\ LET r == [req[p] EXCEPT !.getErr = ret[p].err,
                               !.seen = IF ret[p].err = NoErr THEN ret[p].count ELSE -1]
       IN  IF GetFailed(ret[p].err)
           THEN /\ req' = [req EXCEPT ![p] = FailOpen(r)]
                /\ mw' = [mw EXCEPT ![p] = "done"]
                /\ Consumed(p)
                /\ UNCHANGED <<pc, local>>
           ELSE IF LimitReached(ret[p].count, cfg.max)
           THEN /\ req' = [req EXCEPT ![p] =
                      IF cfg.handler = "nil"
                      THEN Panicked([r EXCEPT !.remaining = 0,
                                !.reset = Unix(clock + ret[p].ttl),
                                !.retryAfter = ret[p].ttl \div TicksPerSecond])
                      ELSE
                      [r EXCEPT !.remaining = 0,
                                !.reset = Unix(clock + ret[p].ttl),
                                !.retryAfter = ret[p].ttl \div TicksPerSecond,
                                !.handlerCalls = @ + 1,
                                !.outcome = "denied",
                                !.result = "429"]]
                /\ mw' = [mw EXCEPT ![p] = "done"]
                /\ Consumed(p)
                /\ UNCHANGED <<pc, local>>
           ELSE /\ req' = [req EXCEPT ![p] = r]
                /\ mw' = [mw EXCEPT ![p] = "inc"]
                /\ pc' = [pc EXCEPT ![p] = "inc_start"]
                /\ Consumed(p)
                /\ UNCHANGED local
    /\ UNCHANGED <<lifeVars, clock, cfg, backend, memVars, rdb, ops, nInc, disturbed>>

\* Mutant: a response for which no status was written is not read as 200.
shouldSkipUnwritten(c, statusCode) ==
    LET status == statusCode
        isFailed == status >= 400
        isSuccessful == status >= 200 /\ status < 400
    IN  (c.skipFailed /\ isFailed) \/ (c.skipSuccessful /\ isSuccessful)

\* Mutant: only 2xx counts as successful.
shouldSkip2xxOnly(c, statusCode) ==
    LET status == IF statusCode = 0 THEN 200 ELSE statusCode
        isFailed == status >= 400
        isSuccessful == status >= 200 /\ status < 300
    IN  (c.skipFailed /\ isFailed) \/ (c.skipSuccessful /\ isSuccessful)

\* shouldSkip: the status the wrapper saw, 0 read as 200.
shouldSkip(c, statusCode) ==
    LET status == IF statusCode = 0 THEN 200 ELSE statusCode
        isFailed == status >= 400
        isSuccessful == status >= 200 /\ status < 400
    IN  (c.skipFailed /\ isFailed) \/ (c.skipSuccessful /\ isSuccessful)

\* Mutant: Remaining computed from the count before the Increment.
RemainingStale(max, count) == IF max - count + 1 >= 0 THEN max - count + 1 ELSE 0

\* `remaining := max(cfg.Max-count, 0)`
Remaining(max, count) == IF max - count >= 0 THEN max - count ELSE 0

\* After Increment: fail open, or set the headers, run next(c) and decide
\* on the rollback.
MwAfterInc(p) ==
    /\ mw[p] = "inc"
    /\ pc[p] = "idle"
    /\ Consumed(p)
    /\ LET r == [req[p] EXCEPT !.incErr = ret[p].err]
           wrapped == cfg.skipFailed \/ cfg.skipSuccessful
       IN  IF ret[p].err # NoErr
           THEN /\ req' = [req EXCEPT ![p] = FailOpen(r)]
                /\ mw' = [mw EXCEPT ![p] = "done"]
                /\ UNCHANGED <<pc, local>>
           ELSE \E s \in IF wrapped THEN Statuses ELSE {-1} :
                LET skip == wrapped /\ shouldSkip(cfg, s)
                    a == [r EXCEPT !.incCount = ret[p].count,
                                   !.remaining = Remaining(cfg.max, ret[p].count),
                                   !.reset = Unix(clock + ret[p].ttl),
                                   !.nextCalls = @ + 1,
                                   !.status = s,
                                   !.outcome = "admitted",
                                   !.result = "next",
                                   !.decCalls = IF skip THEN @ + 1 ELSE @]
                IN  /\ req' = [req EXCEPT ![p] = a]
                    /\ IF skip
                       THEN /\ mw' = [mw EXCEPT ![p] = "dec"]
                            /\ pc' = [pc EXCEPT ![p] = "dec_map"]
                            /\ UNCHANGED local
                       ELSE /\ mw' = [mw EXCEPT ![p] = "done"]
                            /\ UNCHANGED <<pc, local>>
    /\ UNCHANGED <<lifeVars, clock, cfg, backend, memVars, rdb, ops, nInc, disturbed>>

\* After Decrement: its error is logged only; `return err`.
MwAfterDec(p) ==
    /\ mw[p] = "dec"
    /\ pc[p] = "idle"
    /\ mw' = [mw EXCEPT ![p] = "done"]
    /\ Consumed(p)
    /\ UNCHANGED <<lifeVars, clock, cfg, backend, memVars, rdb, pc, local, req, ops,
                   nInc, disturbed>>

MwAdmit(p, budget) ==
    \/ MwStart(p, budget)
    \/ MwAfterGet(p)
    \/ MwAfterInc(p)

MiddlewareStep(p, budget) ==
    \/ MwAdmit(p, budget)
    \/ MwAfterDec(p)

\* ------------------------------------------------------------ the Server

\* The frame of the Server's steps that leave the MemoryStore alone.
ServerOnly ==
    UNCHANGED <<clock, cfg, backend, memVars, rdb, pc, local, ret, mwVars, ops,
                nInc, disturbed, storeLife>>

\* Server.RegisterStore(store), which New also calls for Config.Store:
\* s.Stores = append(s.Stores, store).
RegisterStore(b) ==
    /\ ~panicked
    /\ srv.pc = "serving"
    /\ Len(srv.Stores) < MaxStores
    /\ srv' = [srv EXCEPT !.Stores = Append(srv.Stores, b)]
    /\ ServerOnly

\* Server.Shutdown is called.
ShutdownStart ==
    /\ ~panicked
    /\ srv.pc = "serving"
    /\ srv' = [srv EXCEPT !.pc = "http"]
    /\ ServerOnly

\* s.httpServer.Shutdown(ctx) returns: nil, or an error (the context expired
\* before the connections drained), which Shutdown returns at once.
HttpShutdown(ok) ==
    /\ ~panicked
    /\ srv.pc = "http"
    /\ srv' = IF ok THEN [srv EXCEPT !.pc = "closing", !.i = 1]
              ELSE [srv EXCEPT !.pc = "returned", !.result = "err"]
    /\ ServerOnly

\* One turn of `for _, store := range s.Stores`: store.Close(), its error
\* logged and dropped. A MemoryStore closes its done channel and returns nil;
\* a RedisStore returns what the client's Close returns.
CloseNext(failed) ==
    /\ ~panicked
    /\ srv.pc = "closing"
    /\ srv.i <= Len(srv.Stores)
    /\ LET b == srv.Stores[srv.i]
           err == b = "redis" /\ failed
       IN  /\ b = "memory" => ~failed
           /\ srv' = [srv EXCEPT !.i = srv.i + 1,
                                 !.closeCalls[b] = srv.closeCalls[b] + 1,
                                 !.closeErrs = srv.closeErrs + (IF err THEN 1 ELSE 0),
                                 !.lastClosed = srv.i]
           /\ IF b = "memory"
              THEN CloseDone
              ELSE UNCHANGED <<done, closes, panicked>>
    /\ UNCHANGED <<clock, cfg, backend, memVars, rdb, pc, local, ret, mwVars,
                   ops, nInc, disturbed, mmu, sweep, ticker>>

\* The loop is over: Shutdown returns nil.
ShutdownReturn ==
    /\ ~panicked
    /\ srv.pc = "closing"
    /\ srv.i > Len(srv.Stores)
    /\ srv' = [srv EXCEPT !.pc = "returned", !.result = "nil"]
    /\ ServerOnly

ServerStep ==
    \/ \E b \in Backends : RegisterStore(b)
    \/ ShutdownStart
    \/ \E ok \in BOOLEAN : HttpShutdown(ok)
    \/ \E failed \in BOOLEAN : CloseNext(failed)
    \/ ShutdownReturn

\* ------------------------------------------------------------ specification

Next ==
    \/ Tick
    \/ \E p \in Procs : \E op \in DOMAIN OpEntry : Call(p, op)
    \/ \E p \in Procs : IncStart(p)
    \/ \E p \in Procs : MemoryStep(p)
    \/ \E p \in Procs : RedisStep(p)

Spec == Init /\ [][Next]_vars

\* One goroutine calling the MemoryStore, one operation after the other.
InitSeq ==
    /\ InitStore
    /\ backend = "memory"
    /\ cfg = BaseConfig

NextSeq ==
    \/ Tick
    \/ \E op \in DOMAIN OpEntry : Call(1, op)
    \/ IncStart(1)
    \/ MemoryStep(1)

SpecSeq == InitSeq /\ [][NextSeq]_vars

\* Requests through the middleware over a MemoryStore, any Config.
InitMw ==
    /\ InitStore
    /\ backend = "memory"
    /\ cfg \in Configs

\* ... one request after the other,
NextMwSeq ==
    \/ Tick
    \/ MiddlewareStep(1, MaxReqs)
    \/ IncStart(1)
    \/ MemoryCounting(1)

SpecMwSeq == InitMw /\ [][NextMwSeq]_vars

\* ... and requests served concurrently, none of them rolled back.
InitConc ==
    /\ InitStore
    /\ backend = "memory"
    /\ cfg \in {c \in Configs : ~c.skipFailed /\ ~c.skipSuccessful}

NextMw ==
    \/ Tick
    \/ \E p \in Procs : MwAdmit(p, MaxReqs)
    \/ \E p \in Procs : IncStart(p)
    \/ \E p \in Procs : MemoryAdmit(p)

SpecMw == InitConc /\ [][NextMw]_vars

\* Requests served concurrently over either store, whose calls may fail.
InitFault ==
    /\ InitStore
    /\ backend \in Backends
    /\ cfg \in {c \in Configs : ~c.skipSuccessful}

NextFault ==
    \/ Tick
    \/ \E p \in Procs : MiddlewareStep(p, MaxFaultReqs)
    \/ \E p \in Procs : \E e \in StoreErrors : StoreFault(p, e)
    \/ \E p \in Procs : IncStart(p)
    \/ \E p \in Procs : MemoryCounting(p)
    \/ \E p \in Procs : RedisCounting(p)

SpecFault == InitFault /\ [][NextFault]_vars

\* One request after the other over a MemoryStore whose calls may fail, any
\* Config.
NextMwSeqFault ==
    \/ Tick
    \/ MiddlewareStep(1, MaxReqs)
    \/ \E e \in StoreErrors : StoreFault(1, e)
    \/ IncStart(1)
    \/ MemoryCounting(1)

SpecMwSeqFault == InitMw /\ [][NextMwSeqFault]_vars

\* A hash whose count field holds text that is not a number.
GarbledHash == [Hash(0, 0) EXCEPT !.numeric = FALSE]

\* Numbers at both ends of the int range, and beyond them.
EdgeNumbers ==
    (MinInt - Margin)..(MinInt + Margin) \cup (MaxInt - Margin)..(MaxInt + Margin)

\* What a key of the backend may hold when the store first meets it: a hash
\* left by earlier traffic with any count, a hash with a garbled count
\* field, or a string written under the same name.
StoredValues ==
    {Hash(c, 0) : c \in EdgeNumbers}
        \cup {GarbledHash}
        \cup {StringKey(<<"a", "b", "c">>), StringKey(<<"7">>),
              StringKey(<<"9", "9", "9", "9">>)}

\* One goroutine calling a RedisStore whose key already holds a value.
InitStored ==
    /\ InitLife
    /\ clock = 0
    /\ entries = [k \in Keys |-> NoEntry]
    /\ ecount = << >>
    /\ ews = << >>
    /\ emu = << >>
    /\ rdb \in [Keys -> StoredValues]
    /\ pc = [p \in Procs |-> "idle"]
    /\ local = [p \in Procs |-> NoLocal]
    /\ ret = [p \in Procs |-> Result(0, 0, NoErr)]
    /\ mw = [p \in Procs |-> "none"]
    /\ req = [p \in Procs |-> NoReq]
    /\ ops = 0
    /\ nInc = 0
    /\ disturbed = FALSE
    /\ backend = "redis"
    /\ cfg = BaseConfig

NextStored ==
    \/ Tick
    \/ \E op \in DOMAIN OpEntry : Call(1, op)
    \/ IncStart(1)
    \/ RedisStep(1)

SpecStored == InitStored /\ [][NextStored]_vars

\* The middleware RateLimit builds from any Config a caller may pass, its
\* optional fields set or left unset, serving one request after the other.
InitDefaults ==
    /\ InitStore
    /\ backend = "memory"
    /\ cfg \in {RateLimit(c) : c \in CallerConfigs}

SpecDefaults == InitDefaults /\ [][NextMwSeq]_vars

\* A Server whose program registers stores and shuts it down, the cleanup
\* goroutine of the MemoryStore running next to it.
InitServer ==
    /\ InitStore
    /\ backend = "memory"
    /\ cfg = BaseConfig

NextServer ==
    \/ ServerStep
    \/ CleanupStep

SpecServer == InitServer /\ [][NextServer]_vars

\* Window lengths below, at and above DefaultMaxAge.
Windows == 1..(DefaultMaxAge + 1)

\* Goroutines calling a MemoryStore while its cleanup goroutine sweeps, for
\* each window length.
InitSweep ==
    /\ InitStore
    /\ backend = "memory"
    /\ cfg \in {[BaseConfig EXCEPT !.window = w] : w \in Windows}

StoreCalls(budget) ==
    \/ \E p \in Procs : \E op \in DOMAIN OpEntry : ops < budget /\ Call(p, op)
    \/ \E p \in Procs : IncStart(p)
    \/ \E p \in Procs : MemoryStep(p)

NextSweep ==
    \/ Tick
    \/ StoreCalls(MaxSweepOps)
    \/ SweepTick
    \/ SweepScan

SpecSweep == InitSweep /\ [][NextSweep]_vars

\* The same with Increment the only operation called: nothing but the sweep
\* takes an entry out of the map.
NextSweepInc ==
    \/ Tick
    \/ \E p \in Procs : ops < MaxSweepOps /\ Call(p, "Increment")
    \/ \E p \in Procs : IncStart(p)
    \/ \E p \in Procs : IncMap(p) \/ IncLock(p) \/ IncBody(p)
    \/ SweepTick
    \/ SweepScan

SpecSweepInc == InitSweep /\ [][NextSweepInc]_vars

\* The same with the program closing the store, under fair scheduling: a
\* goroutine that can take a step, or a lock that is free again and again,
\* does so in the end (sync.Mutex hands a starving waiter the lock), and a
\* select whose done case is ready again and again takes it in the end.
NextLive ==
    \/ Tick
    \/ StoreCalls(MaxLiveOps)
    \/ CleanupStep
    \/ Close

Fairness ==
    /\ \A p \in Procs : SF_vars(IncStart(p) \/ MemoryStep(p))
    /\ SF_vars(SweepScan)
    /\ SF_vars(SweepExit)

SpecLive == InitSeq /\ [][NextLive]_vars /\ Fairness

\* One goroutine calling Increment on a RedisStore, for window lengths
\* below a second, of whole seconds, and in between.
InitWindows ==
    /\ InitStore
    /\ backend = "redis"
    /\ cfg \in {[BaseConfig EXCEPT !.window = w] : w \in Windows}

NextWindows ==
    \/ Tick
    \/ Call(1, "Increment")
    \/ IncStart(1)
    \/ REvalInc(1)

SpecWindows == InitWindows /\ [][NextWindows]_vars

\* The operations and the sweep alone, the store never closed, under the
\* same fair scheduling.
NextLocks ==
    \/ Tick
    \/ StoreCalls(MaxLiveOps)
    \/ SweepTick
    \/ SweepScan

SpecLocks ==
    /\ InitSeq
    /\ [][NextLocks]_vars
    /\ \A p \in Procs : SF_vars(IncStart(p) \/ MemoryStep(p))
    /\ SF_vars(SweepScan)

\* ------------------------------------------------------------------ claims

AllIdle == \A p \in Procs : pc[p] = "idle"

NoRollback == ~cfg.skipFailed /\ ~cfg.skipSuccessful

\* The key's current window is still running (or the key was never charged).
InWindow(k) == entries[k] = NoEntry \/ clock - ews[entries[k]] <= cfg.window

Done(p) == mw[p] = "done"

\* C1: requests served one after the other on a fresh key within one window
\* of a MemoryStore (no Increment has restarted the window and it is still
\* running), none rolled back: request number k is admitted with
\* Remaining = max - k when k <= max, and denied with Remaining = 0 and the
\* admission-failure handler's result (the 429 error) when k > max.
C1_SequentialAdmission ==
    (Done(1) /\ NoRollback /\ ~disturbed /\ InWindow(TheKey)) =>
        IF ops <= cfg.max
        THEN req[1].outcome = "admitted" /\ req[1].remaining = cfg.max - ops
        ELSE /\ req[1].outcome = "denied"
             /\ req[1].remaining = 0
             /\ req[1].result = "429"

\* C1 witness: with max = MaxLimit, request MaxLimit + 1 of the window has
\* been denied and request MaxLimit before it left the count at max.
C1_Witness ==
    /\ Done(1) /\ NoRollback /\ ~disturbed /\ InWindow(TheKey)
    /\ cfg.max = MaxLimit
    /\ ops = MaxLimit + 1
    /\ req[1].outcome = "denied"
    /\ StoredCount(TheKey) = MaxLimit

\* The request of goroutine p was denied: its Get returned a count >= max.
Denied(p) == req[p].seen >= cfg.max

\* C2: a request the middleware denies never invokes the next handler; the
\* admission-failure handler is called exactly once, and nothing is charged.
C2_DeniedNeverForwarded ==
    \A p \in Procs :
        Denied(p) => /\ req[p].nextCalls = 0
                     /\ req[p].handlerCalls = 1
                     /\ req[p].result = "429"
                     /\ Done(p)

\* C2 witness: a denied request has completed.
C2_Witness ==
    \E p \in Procs : Denied(p) /\ Done(p) /\ req[p].outcome = "denied"

\* C3: on a MemoryStore, when every Increment call has returned and no
\* Decrement, no Reset and no window reset has happened, the stored count is
\* exactly the number of Increment calls, however the goroutines interleaved.
C3_NoLostUpdate ==
    (backend = "memory" /\ AllIdle /\ ~disturbed) => StoredCount(TheKey) = nInc

\* C3 witness: MaxOps Increment calls, made by more than one goroutine, have
\* all returned and the stored count is MaxOps.
C3_Witness ==
    /\ backend = "memory" /\ AllIdle /\ ~disturbed
    /\ nInc = MaxOps
    /\ StoredCount(TheKey) = MaxOps
    /\ \A p \in Procs : ret[p].count >= 1

\* C4: the check (Get) and the charge (Increment) are separate calls, so the
\* limit can be overrun, and only by requests that overlap: a request whose
\* Increment returns more than max was in flight together with another one.
C4_OverrunOnlyByOverlap ==
    \A p \in Procs :
        (req[p].outcome = "admitted" /\ req[p].incCount > cfg.max)
            => req[p].overlapped

\* C4 witness: more than max requests have been admitted within one window
\* and the stored count exceeds max.
C4_Witness ==
    /\ Cardinality({p \in Procs : Done(p) /\ req[p].outcome = "admitted"}) > cfg.max
    /\ StoredCount(TheKey) > cfg.max
    /\ entries[TheKey] # NoEntry
    /\ InWindow(TheKey)

\* C5: once the key has been charged max requests in a window and more than
\* the window has elapsed, the next request is admitted with
\* Remaining = max - 1.
C5_AdmittedAfterWindow ==
    (Done(1) /\ NoRollback /\ req[1].expired0 /\ req[1].count0 = cfg.max) =>
        (req[1].outcome = "admitted" /\ req[1].remaining = cfg.max - 1)

\* C6: whenever Get or Increment returned an error to a request, the next
\* handler has been invoked exactly once, the admission-failure handler not
\* at all, and the request returns what the next handler returned.
C6_FailOpen ==
    \A p \in Procs :
        (Done(p) /\ (req[p].getErr # NoErr \/ req[p].incErr # NoErr)) =>
            /\ req[p].nextCalls = 1
            /\ req[p].handlerCalls = 0
            /\ req[p].result = "next"

\* C6 witness: one request has completed after a failed Get and another
\* after a failed Increment.
C6_Witness ==
    \E p, q \in Procs :
        /\ Done(p) /\ req[p].getErr = "storage error" /\ req[p].nextCalls = 1
        /\ Done(q) /\ req[q].incErr = "storage error" /\ req[q].nextCalls = 1

\* C7: a MemoryStore Increment that finds its `now` more than Window after
\* the stored windowStart returns 1, sets the count to 1 and starts a new
\* window at its `now`, whatever the count was; one that finds
\* now - windowStart <= Window adds one and keeps the window.
C7_WindowReset ==
    [][\A p \in Procs :
        (pc[p] = "inc_body" /\ pc'[p] = "idle") =>
            LET e == local[p].entry IN
            IF local[p].now - ews[e] > Window
            THEN ret'[p].count = 1 /\ ecount'[e] = 1 /\ ews'[e] = local[p].now
            ELSE /\ ret'[p].count = ecount[e] + 1
                 /\ ecount'[e] = ecount[e] + 1
                 /\ ews'[e] = ews[e]]_vars

\* C7 witness: the only entry ever created was charged twice and then, by a
\* third Increment, restarted at count 1 in a window that began later.
C7_Witness ==
    /\ backend = "memory" /\ AllIdle
    /\ Len(ecount) = 1 /\ ops = 3 /\ nInc = 3
    /\ ecount[1] = 1 /\ ews[1] > Window
    /\ \E p \in Procs : ret[p].count = 1 /\ ret[p].ttl = Window

\* C8: Increment calls made one after the other on one key of a MemoryStore,
\* all within one window with no Decrement or Reset between them, return
\* 1, 2, ..., N in that order, and the first returns ttl = Window.
C8_SequentialCounts ==
    [][(pc[1] \in {"inc_map", "inc_body"} /\ pc'[1] = "idle" /\ ~disturbed') =>
          /\ ret'[1].count = nInc'
          /\ ret'[1].err = NoErr
          /\ (nInc' = 1 => ret'[1].ttl = Window)]_vars

\* C8 witness: MaxOps Increment calls have been made in a row within one
\* window and the last one returned MaxOps.
C8_Witness ==
    /\ pc[1] = "idle" /\ ~disturbed
    /\ ops = MaxOps /\ nInc = MaxOps
    /\ ret[1].count = MaxOps
    /\ ret[1].ttl < Window

\* A Decrement returns in this step.
DecrementReturns(p) == pc[p] \in {"dec_map", "dec_body"} /\ pc'[p] = "idle"

Successful(status) == status = 0 \/ (status >= 200 /\ status < 400)

RolledBackSuccess(p) ==
    /\ Done(p)
    /\ cfg.skipSuccessful
    /\ req[p].outcome = "admitted"
    /\ Successful(req[p].status)

\* C10 as stated: with skipSuccessfulRequests, an admitted request answered
\* 2xx/3xx that no other request overlaps leaves the stored count equal to
\* its value before the request.
C10_CountRestored ==
    RolledBackSuccess(1) => StoredCount(TheKey) = req[1].count0

\* C10 as amended: such a request leaves the stored count one below the
\* count its Increment returned; that is the count before the request as
\* long as the key's window is still running, and 0 when the Increment
\* restarted the window.
C10_ChargeRolledBack ==
    RolledBackSuccess(1) =>
        /\ StoredCount(TheKey) = req[1].incCount - 1
        /\ (InWindow(TheKey) /\ ~disturbed) => StoredCount(TheKey) = req[1].count0

\* C10 witness: a request answered 3xx found the count at 1, was charged and
\* rolled back, and the count is 1 again.
C10_Witness ==
    /\ RolledBackSuccess(1)
    /\ req[1].status = 399
    /\ req[1].count0 = 1
    /\ req[1].incCount = 2
    /\ StoredCount(TheKey) = 1
    /\ InWindow(TheKey)

\* The status the wrapper saw is a 4xx or 5xx one.
Failed(status) == status >= 400

\* The rollback condition of the Config for the status the wrapper saw.
RollbackDue(status) ==
    \/ cfg.skipFailed /\ Failed(status)
    \/ cfg.skipSuccessful /\ Successful(status)

\* C11: once the downstream handler of an admitted request has returned,
\* Store.Decrement has been called for it exactly once if (skipFailed and
\* status >= 400) or (skipSuccessful and 200 <= status < 400, no status
\* written counting as 200), and not at all otherwise; it is never called
\* for a denied request, a request let through by fail-open, or when neither
\* flag is set; and a Decrement runs only for a request that called it.
C11_RollbackExactlyWhenDue ==
    /\ \A p \in Procs :
          /\ req[p].decCalls =
                IF req[p].outcome = "admitted" /\ RollbackDue(req[p].status)
                THEN 1 ELSE 0
          /\ (req[p].outcome \in {"denied", "failopen"} \/ NoRollback)
                => req[p].decCalls = 0
          /\ (mw[p] # "none" /\ pc[p] \in {"dec_map", "dec_lock", "dec_body"})
                => (mw[p] = "dec" /\ req[p].decCalls = 1)

\* C11 witness: with both flags set, the second request, whose handler wrote
\* no status, was charged and then rolled back to a stored count of 0.
C11_Witness ==
    /\ Done(1)
    /\ cfg.skipFailed /\ cfg.skipSuccessful
    /\ req[1].outcome = "admitted"
    /\ req[1].status = 0
    /\ req[1].decCalls = 1
    /\ ops = 2
    /\ StoredCount(TheKey) = 0
    /\ entries[TheKey] # NoEntry

\* C12: on a denied request Retry-After is the number of whole seconds left
\* until the key's window resets and Reset is the epoch second of that
\* reset; while the window has at least one second left, Retry-After >= 1.
\* (Stated for the latest request of a sequential client: the window that
\* denied it is the one still stored.)
C12_RetryAfterUntilReset ==
    LET e == entries[TheKey] IN
    (/\ Done(1) /\ req[1].outcome = "denied"
     /\ e # NoEntry
     /\ Window - (clock - ews[e]) >= TicksPerSecond)
        => /\ req[1].retryAfter >= 1
           /\ req[1].reset = Unix(ews[e] + Window)

\* C13: every ttl MemoryStore.Increment returns lies in 0..Window, however
\* concurrent Increment calls on the key interleave.
C13_TtlWithinWindow ==
    backend = "memory" =>
        \A p \in Procs : ret[p].ttl >= 0 /\ ret[p].ttl <= Window

\* A step of MemoryStore.Get by goroutine p.
GetSteps(p) ==
    backend = "memory" /\ pc[p] \in {"get_map", "get_lock"} /\ pc'[p] # pc[p]

\* C14: MemoryStore.Get on a key that has no entry returns (0, 0, nil), and
\* no step of Get changes the store: the map, every count and every
\* windowStart stay as they were.
C14_GetReadsOnly ==
    [][\A p \in Procs :
        GetSteps(p) =>
            /\ entries' = entries
            /\ ecount' = ecount
            /\ ews' = ews
            /\ (pc[p] = "get_map" /\ entries[TheKey] = NoEntry) =>
                    (pc'[p] = "idle" /\ ret'[p] = Result(0, 0, NoErr))]_vars

\* C14 witness: the only operation made so far was a Get, it has returned
\* (0, 0, nil), and the key still has no entry.
C14_Witness ==
    /\ backend = "memory" /\ AllIdle
    /\ ops = 1 /\ nInc = 0 /\ ~disturbed
    /\ entries[TheKey] = NoEntry /\ Len(ecount) = 0
    /\ \A p \in Procs : ret[p] = Result(0, 0, NoErr)

\* A RedisStore.Get by goroutine p returns in this step.
RedisGetReturns(p) ==
    backend = "redis" /\ pc[p] = "get_map" /\ pc'[p] = "idle"

\* C15: through a RedisClientAdapter, RedisStore.Get on a key the backend
\* does not hold returns (0, 0, nil).
C15_AbsentIsNotAnError ==
    [][\A p \in Procs :
        (RedisGetReturns(p) /\ Live(TheKey) = NoHash) =>
            ret'[p] = Result(0, 0, NoErr)]_vars

\* C16: RedisStore.Get returns the count the key holds: once Increment calls
\* have left the count at n, with no other write and no expiry since, a Get
\* returns n and a nil error.
C16_GetReturnsCount ==
    [][\A p \in Procs :
        (RedisGetReturns(p) /\ ~disturbed /\ Live(TheKey).type = "hash") =>
            (ret'[p].count = Live(TheKey).count /\ ret'[p].err = NoErr)]_vars

\* A RedisStore.Increment by goroutine p returns in this step.
RedisIncrementReturns(p) ==
    backend = "redis" /\ pc[p] = "inc_eval" /\ pc'[p] = "idle"

\* C17: the server runs each script atomically, so when goroutines have
\* made Increment calls on one key of a RedisStore within one window (no
\* window reset, no expiry, no Decrement or Reset), the stored count is the
\* number of calls, and the k-th call to return has returned k: no two
\* calls return the same count.
C17_RedisNoLostUpdate ==
    /\ []((/\ backend = "redis" /\ AllIdle /\ ~disturbed
           /\ (nInc = 0 \/ Live(TheKey) # NoHash))
             => StoredCount(TheKey) = nInc)
    /\ [][\A p \in Procs :
            (RedisIncrementReturns(p) /\ ~disturbed') =>
                (ret'[p].count = nInc' /\ ret'[p].err = NoErr)]_vars

\* C17 witness: MaxOps Increment calls, made by more than one goroutine,
\* have all returned, with different counts, and the hash holds MaxOps.
C17_Witness ==
    /\ backend = "redis" /\ AllIdle /\ ~disturbed
    /\ nInc = MaxOps
    /\ Live(TheKey).type = "hash" /\ Live(TheKey).count = MaxOps
    /\ \A p \in Procs : ret[p].count >= 1
    /\ \A p, q \in Procs : p # q => ret[p].count # ret[q].count

\* The value of the key cannot be read as a number: a hash whose count field
\* is garbled, or a string that is not a decimal number.
Unparsable(h) ==
    \/ h.type = "hash" /\ ~h.numeric
    \/ h.type = "string" /\ ParseInt(h.str).err # NoErr

\* C18: when the value stored for the key cannot be parsed as a number, the
\* RedisStore takes the count for 0 and reports no error: Increment returns
\* count 1 and Get returns (0, 0, nil).
C18_MalformedReadsAsZero ==
    [][\A p \in Procs :
        Unparsable(Live(TheKey)) =>
            /\ RedisIncrementReturns(p) =>
                    (ret'[p].count = 1 /\ ret'[p].err = NoErr)
            /\ RedisGetReturns(p) => ret'[p] = Result(0, 0, NoErr)]_vars

\* What toInt must give for the number n: n itself inside the int range,
\* an error and no value outside it.
Narrowed(n) ==
    IF n >= MinInt /\ n <= MaxInt
    THEN [v |-> n, err |-> NoErr]
    ELSE [v |-> 0, err |-> "overflows int"]

\* C19: for an int64 or a decimal string outside the range of int, toInt
\* returns an error, never a wrapped or truncated value; inside the range it
\* returns the exact value; and RedisStore.Increment hands that error to its
\* caller with no count: it returns the count the script stored exactly when
\* that count fits int.
C19_NarrowingIsChecked ==
    /\ [](\A n \in EdgeNumbers : \A kind \in ReplyKinds :
            toInt(Reply(kind, n)) = Narrowed(n))
    /\ [][\A p \in Procs :
            (RedisIncrementReturns(p) /\ Live(TheKey).type = "hash") =>
                LET stored == rdb'[TheKey].count IN
                IF Narrowed(stored).err = NoErr
                THEN ret'[p].count = stored /\ ret'[p].err = NoErr
                ELSE ret'[p].count = 0 /\ ret'[p].err = "failed to parse count"]_vars

\* C19 witness: an Increment has pushed the stored count one past MaxInt and
\* has returned the parse error and no count.
C19_Witness ==
    /\ backend = "redis" /\ pc[1] = "idle"
    /\ Live(TheKey).type = "hash" /\ Live(TheKey).count = MaxInt + 1
    /\ nInc = 1 /\ ops = 1
    /\ ret[1] = Result(0, 0, "failed to parse count")

\* The key has no entry in the map.
Absent(k) == entries[k] = NoEntry

\* C20: MemoryStore.Reset returns nil and leaves the key without an entry,
\* whatever its count was, and touches nothing else; on a key without an
\* entry it changes nothing.  On a key without an entry, so after a Reset,
\* Get returns (0, 0, nil) and Increment returns count 1 with ttl = Window.
C20_ResetClears ==
    [][backend = "memory" =>
        /\ (pc[1] = "reset" /\ pc'[1] = "idle") =>
                /\ ret'[1].err = NoErr
                /\ Absent(TheKey)'
                /\ StoredCount(TheKey)' = 0
                /\ <<ecount, ews, emu>>' = <<ecount, ews, emu>>
                /\ Absent(TheKey) => entries' = entries
        /\ (Absent(TheKey) /\ pc[1] = "get_map" /\ pc'[1] = "idle") =>
                ret'[1] = Result(0, 0, NoErr)
        /\ (Absent(TheKey) /\ pc[1] = "inc_map" /\ pc'[1] = "idle") =>
                /\ ret'[1] = Result(1, Window, NoErr)
                /\ StoredCount(TheKey)' = 1]_vars

\* C20 witness: the key was charged twice and reset, and the Increment
\* after the Reset has created a second entry and returned (1, Window).
C20_Witness ==
    /\ backend = "memory" /\ pc[1] = "idle"
    /\ Len(ecount) = 2 /\ ecount[1] = 2
    /\ entries[TheKey] = 2 /\ ecount[2] = 1
    /\ ops = 4 /\ nInc = 3
    /\ ret[1] = Result(1, Window, NoErr)

\* C21: RateLimit fills in every field the caller left unset: the store and
\* the header prefix are set, and no request ends in a panic because the
\* key generator or the denial handler is missing.
C21_DefaultsApplied ==
    /\ cfg.store # "nil"
    /\ cfg.headerPrefix = "X-RateLimit-"
    /\ \A p \in Procs : req[p].outcome # "panic"

\* Store b is in the Server's Stores.
Registered(b) == \E i \in DOMAIN srv.Stores : srv.Stores[i] = b

\* C22: once Server.Shutdown has returned, each registered store has had
\* Close called exactly once.
C22_EveryStoreClosedOnce ==
    srv.pc = "returned" =>
        \A b \in Backends : Registered(b) => srv.closeCalls[b] = 1

\* The cleanup goroutine evicts an entry in this step.
Evicts == mmu = Sweeper /\ entries[TheKey] # NoEntry /\ entries'[TheKey] = NoEntry

\* C23: once Close has closed the done channel (and no second Close brings
\* the process down), the cleanup goroutine stops its ticker and returns in
\* the end, and from then on it takes no step: it holds no lock and evicts
\* nothing.
C23_CleanupStops ==
    /\ done ~> ((sweep.pc = "exited" /\ ticker = "stopped") \/ panicked)
    /\ [][sweep.pc = "exited" => (sweep' = sweep /\ mmu' = 0 /\ ~Evicts)]_vars

\* The goroutine has exited after one Close, and the map holds an entry a
\* sweep would evict.
C23_Witness ==
    /\ sweep.pc = "exited" /\ ticker = "stopped" /\ closes = 1 /\ ~panicked
    /\ entries[TheKey] # NoEntry
    /\ Stale(clock - ews[entries[TheKey]])

\* C24: the sweep removes only entries whose window has expired, whatever
\* the window length: an entry the cleanup goroutine evicts is older, at the
\* `now` the sweep read, than the window.
C24_EvictsOnlyExpired ==
    [][Evicts => sweep.now - ews[entries[TheKey]] > cfg.window]_vars

\* C25: no Increment is lost to the sweep: the entry an Increment updates,
\* having looked it up before the sweep ran, is the entry the map holds for
\* the key when the update is made.
C25_UpdatesTheMappedEntry ==
    [][\A p \in Procs :
        (pc[p] = "inc_body" /\ pc'[p] = "idle") =>
            local[p].entry = entries[TheKey]]_vars

\* C26: a rollback removes only the request's own charge. Request a found
\* the key fresh, was charged and was rolled back; request b, the only other
\* one, arrived after that window had run out, so its Increment started a
\* new window, and b was admitted and not rolled back: while the new window
\* runs, it still holds b's charge.
C26_RollbackTakesOwnCharge ==
    \A a, b \in Procs :
        (/\ a # b
         /\ backend = "memory"
         /\ ops = 2 /\ Done(a) /\ Done(b)
         /\ req[a].count0 = 0 /\ ~req[a].expired0
         /\ req[a].incCount = 1 /\ req[a].decCalls = 1
         /\ req[b].expired0
         /\ req[b].incCount = 1 /\ req[b].incErr = NoErr
         /\ req[b].outcome = "admitted" /\ req[b].decCalls = 0
         /\ InWindow(TheKey))
        => StoredCount(TheKey) >= 1

\* Goroutine p takes a step of its request in this step.
RequestSteps(p) == pc'[p] # pc[p] \/ mw'[p] # mw[p]

\* C27: a denied request writes nothing to the store. All it does is the
\* Get and the denial: no step of a request from its arrival to the
\* decision after Get changes the store (the map, a count, a window start, a
\* Redis value), the denial is decided right after the Get, and a denied
\* request has called neither Increment nor Decrement.
C27_DeniedWritesNothing ==
    /\ [][\A p \in Procs :
            (RequestSteps(p) /\ (mw[p] = "get" \/ mw'[p] = "get")) =>
                <<entries, ecount, ews, rdb>>' = <<entries, ecount, ews, rdb>>]_vars
    /\ [][\A p \in Procs :
            (req'[p].outcome = "denied" /\ req[p].outcome # "denied") =>
                mw[p] = "get" /\ mw'[p] = "done"]_vars
    /\ [](\A p \in Procs :
            req[p].outcome = "denied" =>
                req[p].incCount = -1 /\ req[p].decCalls = 0)

\* A request has been denied on a key whose window is running, and the key
\* holds the count and the window start it held before.
C27_Witness ==
    \E p \in Procs :
        /\ Done(p) /\ req[p].outcome = "denied"
        /\ entries[TheKey] # NoEntry
        /\ ecount[entries[TheKey]] = cfg.max
        /\ ews[entries[TheKey]] = 0
        /\ clock > 0

\* No goroutine holds a lock of the MemoryStore.
LocksFree == mmu = 0 /\ \A e \in 1..Len(emu) : emu[e] = 0

\* C28: no interleaving of Increment, Decrement, Get, Reset and the sweep
\* deadlocks. Under fair scheduling every operation that has started returns
\* and every scan of the cleanup goroutine ends, and once they have, no lock
\* is held.
C28_NoDeadlock ==
    /\ \A p \in Procs : (pc[p] # "idle") ~> (pc[p] = "idle")
    /\ (sweep.pc # "select") ~> (sweep.pc = "select")
    /\ []((AllIdle /\ sweep.pc \in {"select", "lock"}) => LocksFree)

\* The cleanup goroutine, holding m.mu, waits for the lock of the entry a
\* goroutine holds inside its operation.
C28_Witness ==
    \E q \in Procs :
        /\ mmu = Sweeper /\ sweep.pc = "scan"
        /\ entries[TheKey] # NoEntry
        /\ emu[entries[TheKey]] = q
        /\ pc[q] \in {"inc_body", "dec_body"}

\* C29: Close on a MemoryStore may be called more than once: however many
\* calls have been made, none has panicked.
C29_CloseTwiceIsSafe == closes >= 1 => ~panicked

\* C30: on a RedisStore, the Increment calls made one after the other on a
\* fresh key before one window has gone by return 1, 2, 3, ... whatever the
\* window length, a whole number of seconds or not.
C30_RedisCountsAnyWindow ==
    [][(RedisIncrementReturns(1) /\ clock < cfg.window) =>
            (ret'[1].err = NoErr /\ ret'[1].count = nInc + 1)]_vars

====
